---- MODULE Spec2Model ----
(***************************************************************************)
(* Swiss AI provider adapter (crates/goose/src/providers/swiss_ai.rs).     *)
(*                                                                         *)
(* The module models SwissAiProvider: construction from the process        *)
(* configuration (from_env), one chat completion (complete: encode, the    *)
(* retry-wrapped post, decode, usage and model extraction, debug trace)    *)
(* and the model listing (fetch_supported_models).                         *)
(*                                                                         *)
(* Optional values (Rust Option, an absent JSON field) are sets with at    *)
(* most one element: {} is None / absent, {v} is Some(v) / present.        *)
(***************************************************************************)
EXTENDS Integers, Sequences, FiniteSets, TLC

VARIABLES
    apiKey,       \* config store: secret SWISS_AI_API_KEY (optional)
    hostParam,    \* config store: parameter SWISS_AI_HOST (optional)
    adapter,      \* the SwissAiProvider the caller holds, or the failed construction
    postCalls,    \* transport spy: POST v1/chat/completions requests made
    getCalls,     \* transport spy: GET v1/models requests made
    calls,        \* number of complete calls started
    phase,        \* position of the complete call in flight
    input,        \* (system, messages) borrowed for the call in flight
    payload,      \* local `payload` of complete
    log,          \* the post invocations of the call in flight, in order
    response,     \* local `response` of complete
    result,       \* what complete returned
    trace,        \* the record handed to emit_debug_trace
    fetches,      \* number of fetch_supported_models calls made
    lastListing,  \* what the backend answered to the last GET v1/models
    fetchResult   \* what fetch_supported_models returned

vars == <<apiKey, hostParam, adapter, postCalls, getCalls, calls, phase, input,
          payload, log, response, result, trace, fetches, lastListing, fetchResult>>

configVars   == <<apiKey, hostParam>>
completeVars == <<calls, phase, input, payload, log, response, result, trace>>
fetchVars    == <<fetches, lastListing, fetchResult>>

(***************************************************************************)
(* Bounds of the model.                                                    *)
(***************************************************************************)
MaxAttempts == 3   \* attempt ceiling of the retry policy
MaxCalls    == 2   \* complete calls per run
MaxFetches  == 1   \* fetch_supported_models calls per run
MaxListLen  == 3   \* entries in a backend model listing

(***************************************************************************)
(* Program constants.                                                      *)
(***************************************************************************)
SWISS_AI_API_HOST == "https://api.swiss-ai-platform.ch"
SWISS_AI_KNOWN_MODELS == {"llama-3.3-70b-instruct", "llama-4-405b-instruct"}

(***************************************************************************)
(* Inputs.                                                                 *)
(***************************************************************************)
Secrets       == {"sk-swiss"}
UnusableHosts == {"not a url"}
HostOverrides == {"https://staging.swiss-ai-platform.ch"} \cup UnusableHosts
Systems       == {"sys"}
Conversations == {"hello", "weather", "unencodable"}
ReportedModels == {"llama-3.3-70b-instruct", "llama-3.3-70b-instruct-0825"}
WireUsages    == {[prompt_tokens |-> {3}, completion_tokens |-> {5}, total_tokens |-> {8}]}

Opt(S) == {{}} \cup {{x} : x \in S}
The(o) == CHOOSE x \in o : TRUE

NoAdapter == [status |-> "none", model |-> {}, client |-> {}, err |-> {}]

(***************************************************************************)
(* Config::get_secret / Config::get_param: the value stored under the key, *)
(* or an error when the key is absent.                                     *)
(***************************************************************************)
get_secret(stored) ==
    IF stored = {} THEN [ok |-> FALSE, value |-> {}, err |-> {"ConfigurationError"}]
    ELSE [ok |-> TRUE, value |-> stored, err |-> {}]

get_param(stored) ==
    IF stored = {} THEN [ok |-> FALSE, value |-> {}, err |-> {"ConfigurationError"}]
    ELSE [ok |-> TRUE, value |-> stored, err |-> {}]

(***************************************************************************)
(* ApiClient::new(host, auth): fails when the host is not a usable URL.    *)
(***************************************************************************)
ApiClient_new(host, auth) ==
    IF host \in UnusableHosts
    THEN [ok |-> FALSE, client |-> {}, err |-> {"InvalidHost"}]
    ELSE [ok |-> TRUE, client |-> {[host |-> host, auth |-> auth]}, err |-> {}]

(***************************************************************************)
(* SwissAiProvider::from_env(model): the Result it returns.  The secret is *)
(* read first and its absence returns at once (the `?` of line 36); the    *)
(* host falls back to SWISS_AI_API_HOST; the client is built last.         *)
(***************************************************************************)
\* Faulty variant of from_env: an absent secret is defaulted like the host is.
from_env_KeyDefaulted(model, key, hostp) ==
    LET api_key == IF get_secret(key).ok THEN The(get_secret(key).value) ELSE ""
        host    == IF get_param(hostp).ok THEN The(get_param(hostp).value)
                   ELSE SWISS_AI_API_HOST
        built   == ApiClient_new(host, [bearer |-> api_key])
    IN IF ~built.ok
       THEN [status |-> "failed", model |-> {}, client |-> {}, err |-> built.err]
       ELSE [status |-> "ok", model |-> {model}, client |-> built.client, err |-> {}]

from_env(model, key, hostp) ==
    LET api_key == get_secret(key)
        host    == IF get_param(hostp).ok THEN The(get_param(hostp).value)
                   ELSE SWISS_AI_API_HOST
    IN IF ~api_key.ok
       THEN [status |-> "failed", model |-> {}, client |-> {}, err |-> api_key.err]
       ELSE LET built == ApiClient_new(host, [bearer |-> The(api_key.value)])
            IN IF ~built.ok
               THEN [status |-> "failed", model |-> {}, client |-> {},
                     err |-> built.err]
               ELSE [status |-> "ok", model |-> {model}, client |-> built.client,
                     err |-> {}]

(***************************************************************************)
(* formats::openai::create_request: the request payload built from the     *)
(* model configuration, the system prompt and the conversation.  It fails  *)
(* when the conversation holds content the backend schema cannot carry.    *)
(***************************************************************************)
create_request(model, system, messages) ==
    IF messages = "unencodable"
    THEN [ok |-> FALSE, value |-> {}, err |-> {[kind |-> "MalformedInputError", status |-> {}]}]
    ELSE [ok |-> TRUE,
          value |-> {[model |-> model,
                      messages |-> << [role |-> "system", content |-> system],
                                      [role |-> "user", content |-> messages] >>]},
          err |-> {}]

(***************************************************************************)
(* What the backend can answer to one request: the connection fails, or    *)
(* an HTTP status arrives, with a JSON body when the status is 200.        *)
(***************************************************************************)
Statuses == {200, 400, 401, 403, 429, 500, 503}

ChatBodies ==
    [content : Opt({"hi there"}), usage : Opt(WireUsages), model : Opt(ReportedModels)]

ChatAnswers ==
    {[transport |-> "failed", status |-> {}, body |-> {}]}
    \cup {[transport |-> "ok", status |-> {s}, body |-> {}] : s \in Statuses \ {200}}
    \cup {[transport |-> "ok", status |-> {200}, body |-> {b}] : b \in ChatBodies}

(***************************************************************************)
(* ApiClient::response_post / response_get: the raw response, or the       *)
(* transport error of a failed connection.                                 *)
(***************************************************************************)
send_request(answer) ==
    IF answer.transport = "failed"
    THEN [ok |-> FALSE, value |-> {},
          err |-> {[kind |-> "TransientNetworkError", status |-> {}]}]
    ELSE [ok |-> TRUE, value |-> {answer}, err |-> {}]

(***************************************************************************)
(* utils::handle_response_openai_compat: the body of a 200 response, or    *)
(* the classified error of any other status.                               *)
(***************************************************************************)
handle_response_openai_compat(raw) ==
    LET s == The(raw.status)
    IN IF s = 200 THEN [ok |-> TRUE, value |-> raw.body, err |-> {}]
       ELSE [ok |-> FALSE, value |-> {},
             err |-> {[kind |-> CASE s \in {401, 403} -> "AuthenticationError"
                                  [] s = 429 -> "RateLimitedError"
                                  [] s >= 500 -> "TransientNetworkError"
                                  [] OTHER -> "ClientError",
                       status |-> {s}]}]

(***************************************************************************)
(* SwissAiProvider::post(payload): the Result of one invocation, given     *)
(* what the backend answers to it.                                         *)
(***************************************************************************)
post(body, answer) ==
    LET sent == send_request(answer)
    IN IF ~sent.ok THEN [ok |-> FALSE, value |-> {}, err |-> sent.err]
       ELSE handle_response_openai_compat(The(sent.value))

(***************************************************************************)
(* retry::ProviderRetry: which errors the retry policy retries.            *)
(***************************************************************************)
should_retry(err) == err.kind \in {"RateLimitedError", "TransientNetworkError"}

(***************************************************************************)
(* formats::openai::response_to_message, get_usage; utils::get_model.      *)
(***************************************************************************)
response_to_message(resp) ==
    IF resp.content = {}
    THEN [ok |-> FALSE, value |-> {}, err |-> {[kind |-> "ResponseShapeError", status |-> {}]}]
    ELSE [ok |-> TRUE, value |-> {[role |-> "assistant", content |-> The(resp.content)]},
          err |-> {}]

get_usage(u) ==
    [input_tokens |-> u.prompt_tokens, output_tokens |-> u.completion_tokens,
     total_tokens |-> u.total_tokens]

Usage_default == [input_tokens |-> {}, output_tokens |-> {}, total_tokens |-> {}]

get_model(resp) == IF resp.model = {} THEN "Unknown" ELSE The(resp.model)

Ok(message, model, usage) ==
    [ok |-> TRUE, message |-> {message}, model |-> {model}, usage |-> {usage}, err |-> {}]

Err(e) == [ok |-> FALSE, message |-> {}, model |-> {}, usage |-> {}, err |-> {e}]

(***************************************************************************)
(* complete, lines 97-104: what the call returns and what it hands to      *)
(* emit_debug_trace once the retry-wrapped post has produced `resp`.       *)
(***************************************************************************)
\* Faulty variant of complete_tail: an absent usage object is an error.
complete_tail_UsageRequired(model_config, body, resp) ==
    LET message == response_to_message(resp)
        model   == get_model(resp)
    IN IF ~message.ok
       THEN [result |-> Err(The(message.err)), trace |-> {}]
       ELSE IF resp.usage = {}
       THEN [result |-> Err([kind |-> "ResponseShapeError", status |-> {}]),
             trace |-> {}]
       ELSE [result |-> Ok(The(message.value), model, get_usage(The(resp.usage))),
             trace  |-> {[model_config |-> model_config, payload |-> body,
                          response |-> resp, usage |-> get_usage(The(resp.usage))]}]

\* Faulty variant of complete_tail: a decode failure is swallowed into an empty message.
complete_tail_EmptyMessage(model_config, body, resp) ==
    LET message == response_to_message(resp)
        text    == IF message.ok THEN The(message.value)
                   ELSE [role |-> "assistant", content |-> ""]
        usage   == IF resp.usage = {} THEN Usage_default
                   ELSE get_usage(The(resp.usage))
        model   == get_model(resp)
    IN [result |-> Ok(text, model, usage),
        trace  |-> {[model_config |-> model_config, payload |-> body,
                     response |-> resp, usage |-> usage]}]

complete_tail(model_config, body, resp) ==
    LET message == response_to_message(resp)
        usage   == IF resp.usage = {} THEN Usage_default
                   ELSE get_usage(The(resp.usage))
        model   == get_model(resp)
    IN IF ~message.ok
       THEN [result |-> Err(The(message.err)), trace |-> {}]
       ELSE [result |-> Ok(The(message.value), model, usage),
             trace  |-> {[model_config |-> model_config, payload |-> body,
                          response |-> resp, usage |-> usage]}]

(***************************************************************************)
(* Initial state: the configuration store as the process finds it, no      *)
(* adapter constructed, no call in flight.                                 *)
(***************************************************************************)
Init ==
    /\ apiKey \in Opt(Secrets)
    /\ hostParam \in Opt(HostOverrides)
    /\ adapter = NoAdapter
    /\ postCalls = 0
    /\ getCalls = 0
    /\ calls = 0
    /\ phase = "Idle"
    /\ input = {}
    /\ payload = {}
    /\ log = << >>
    /\ response = {}
    /\ result = {}
    /\ trace = {}
    /\ fetches = 0
    /\ lastListing = {}
    /\ fetchResult = {}

(***************************************************************************)
(* std::env::remove_var("SWISS_AI_API_KEY") before construction            *)
(* (test_from_env_missing_api_key).                                        *)
(***************************************************************************)
RemoveApiKey ==
    /\ adapter.status = "none"
    /\ apiKey # {}
    /\ apiKey' = {}
    /\ UNCHANGED <<hostParam, adapter, postCalls, getCalls, completeVars, fetchVars>>

(***************************************************************************)
(* SwissAiProvider::from_env(model).                                       *)
(***************************************************************************)
FromEnv ==
    /\ adapter.status = "none"
    /\ \E model \in SWISS_AI_KNOWN_MODELS :
           adapter' = from_env(model, apiKey, hostParam)
    /\ UNCHANGED <<configVars, postCalls, getCalls, completeVars, fetchVars>>

(***************************************************************************)
(* complete(system, messages, tools) is called: the call borrows its       *)
(* arguments and starts with fresh locals.                                 *)
(***************************************************************************)
Complete ==
    /\ adapter.status = "ok"
    /\ phase = "Idle"
    /\ calls < MaxCalls
    /\ \E system \in Systems, messages \in Conversations :
           input' = {[system |-> system, messages |-> messages]}
    /\ calls' = calls + 1
    /\ phase' = "Encoding"
    /\ payload' = {}
    /\ log' = << >>
    /\ response' = {}
    /\ result' = {}
    /\ trace' = {}
    /\ UNCHANGED <<configVars, adapter, postCalls, getCalls, fetchVars>>

(***************************************************************************)
(* complete, lines 87-93: create_request(...)?                             *)
(***************************************************************************)
Encode ==
    /\ phase = "Encoding"
    /\ LET req == create_request(The(adapter.model), The(input).system,
                                 The(input).messages)
       IN IF req.ok
          THEN /\ payload' = req.value
               /\ phase' = "Sending"
               /\ UNCHANGED result
          ELSE /\ result' = {Err(The(req.err))}
               /\ phase' = "Failed"
               /\ UNCHANGED payload
    /\ UNCHANGED <<configVars, adapter, postCalls, getCalls, calls, input, log,
                   response, trace, fetchVars>>

(***************************************************************************)
(* complete, line 95: self.with_retry(|| self.post(payload.clone())).await?*)
(* One step is one invocation of the closure: post is sent a clone of the  *)
(* payload; on success the response is kept; a retriable error below the   *)
(* attempt ceiling is retried (after the backoff wait); any other error is *)
(* returned to the caller of complete.                                     *)
(***************************************************************************)
\* Faulty variant of SendAttemptOn: post is awaited without the retry wrapper.
SendAttemptOn_NoRetry(answer) ==
    /\ phase = "Sending"
    /\ LET r == post(The(payload), answer)
       IN /\ log' = Append(log, [sent |-> payload, outcome |-> r])
          /\ postCalls' = postCalls + 1
          /\ IF r.ok
             THEN /\ response' = r.value
                  /\ phase' = "Decoding"
                  /\ UNCHANGED result
             ELSE /\ result' = {Err(The(r.err))}
                  /\ phase' = "Failed"
                  /\ UNCHANGED response
    /\ UNCHANGED <<configVars, adapter, getCalls, calls, input, payload, trace,
                   fetchVars>>

\* Faulty variant of SendAttemptOn: a failed attempt takes the payload instead of a clone.
SendAttemptOn_PayloadMoved(answer) ==
    /\ phase = "Sending"
    /\ LET r == post(The(payload), answer)
       IN /\ log' = Append(log, [sent |-> payload, outcome |-> r])
          /\ postCalls' = postCalls + 1
          /\ payload' = IF r.ok THEN payload ELSE {[model |-> "", messages |-> << >>]}
          /\ IF r.ok
             THEN /\ response' = r.value
                  /\ phase' = "Decoding"
                  /\ UNCHANGED result
             ELSE IF should_retry(The(r.err)) /\ Len(log') < MaxAttempts
             THEN /\ phase' = "Sending"
                  /\ UNCHANGED <<response, result>>
             ELSE /\ result' = {Err(The(r.err))}
                  /\ phase' = "Failed"
                  /\ UNCHANGED response
    /\ UNCHANGED <<configVars, adapter, getCalls, calls, input, trace, fetchVars>>

SendAttemptOn(answer) ==
    /\ phase = "Sending"
    /\ LET r == post(The(payload), answer)
       IN /\ log' = Append(log, [sent |-> payload, outcome |-> r])
          /\ postCalls' = postCalls + 1
          /\ IF r.ok
             THEN /\ response' = r.value
                  /\ phase' = "Decoding"
                  /\ UNCHANGED result
             ELSE IF should_retry(The(r.err)) /\ Len(log') < MaxAttempts
             THEN /\ phase' = "Sending"
                  /\ UNCHANGED <<response, result>>
             ELSE /\ result' = {Err(The(r.err))}
                  /\ phase' = "Failed"
                  /\ UNCHANGED response
    /\ UNCHANGED <<configVars, adapter, getCalls, calls, input, payload, trace,
                   fetchVars>>

SendAttempt == \E answer \in ChatAnswers : SendAttemptOn(answer)

(***************************************************************************)
(* complete, lines 97-104: decode, usage, model, debug trace, return.      *)
(***************************************************************************)
\* Faulty variant of Decode: a decode failure sends the request again.
Decode_Repost ==
    /\ phase = "Decoding"
    /\ LET tail == complete_tail(The(adapter.model), The(payload), The(response))
       IN IF tail.result.ok
          THEN /\ result' = {tail.result}
               /\ trace' = tail.trace
               /\ phase' = "Done"
               /\ UNCHANGED response
          ELSE /\ phase' = IF Len(log) < MaxAttempts THEN "Sending" ELSE "Failed"
               /\ result' = IF Len(log) < MaxAttempts THEN result ELSE {tail.result}
               /\ response' = IF Len(log) < MaxAttempts THEN {} ELSE response
               /\ UNCHANGED trace
    /\ UNCHANGED <<configVars, adapter, postCalls, getCalls, calls, input, payload,
                   log, fetchVars>>

Decode ==
    /\ phase = "Decoding"
    /\ LET tail == complete_tail(The(adapter.model), The(payload), The(response))
       IN /\ result' = {tail.result}
          /\ trace' = tail.trace
          /\ phase' = IF tail.result.ok THEN "Done" ELSE "Failed"
    /\ UNCHANGED <<configVars, adapter, postCalls, getCalls, calls, input, payload,
                   log, response, fetchVars>>

(***************************************************************************)
(* The call has returned: its locals are dropped, the borrowed arguments   *)
(* released; the caller holds the result.                                  *)
(***************************************************************************)
Return ==
    /\ phase \in {"Done", "Failed"}
    /\ phase' = "Idle"
    /\ input' = {}
    /\ payload' = {}
    /\ log' = << >>
    /\ response' = {}
    /\ UNCHANGED <<configVars, adapter, postCalls, getCalls, calls, result, trace,
                   fetchVars>>

(***************************************************************************)
(* Model listing.  A model id is a string, here a sequence of characters   *)
(* over a two-letter alphabet, compared as Rust compares String: byte by   *)
(* byte, a proper prefix first.                                            *)
(***************************************************************************)
ModelIds == {<<1>>, <<1, 1>>, <<2>>}

\* An entry of `data`: an object whose "id" is a string, is no string, or is absent.
ListingEntries ==
    {[id |-> {}], [id |-> {[type |-> "number", str |-> << >>]}]}
    \cup {[id |-> {[type |-> "string", str |-> m]}] : m \in ModelIds}

EntryLists == UNION {[1..n -> ListingEntries] : n \in 0..MaxListLen}

\* The JSON body of a 200 answer to GET v1/models: its "data" field.
ListingBodies ==
    {[data |-> {}], [data |-> {[type |-> "string", items |-> << >>]}]}
    \cup {[data |-> {[type |-> "array", items |-> l]}] : l \in EntryLists}

ListingAnswers ==
    {[transport |-> "failed", status |-> {}, body |-> {}]}
    \cup {[transport |-> "ok", status |-> {s}, body |-> {}] : s \in Statuses \ {200}}
    \cup {[transport |-> "ok", status |-> {200}, body |-> {b}] : b \in ListingBodies}

RECURSIVE StrLeq(_, _)
StrLeq(a, b) ==
    IF a = << >> THEN TRUE
    ELSE IF b = << >> THEN FALSE
    ELSE IF Head(a) # Head(b) THEN Head(a) < Head(b)
    ELSE StrLeq(Tail(a), Tail(b))

\* Vec::sort: a stable sort by the natural order of String.
RECURSIVE Insert(_, _)
Insert(x, sorted) ==
    IF sorted = << >> THEN <<x>>
    ELSE IF StrLeq(Head(sorted), x) THEN <<Head(sorted)>> \o Insert(x, Tail(sorted))
    ELSE <<x>> \o sorted

RECURSIVE sort(_)
sort(v) ==
    IF v = << >> THEN << >>
    ELSE Insert(v[Len(v)], sort(SubSeq(v, 1, Len(v) - 1)))

\* data.iter().filter_map(|m| m.get("id").and_then(|v| v.as_str()).map(String::from))
RECURSIVE filter_map_id(_)
filter_map_id(items) ==
    IF items = << >> THEN << >>
    ELSE LET m == Head(items)
             rest == filter_map_id(Tail(items))
         IN IF m.id # {} /\ The(m.id).type = "string"
            THEN <<The(m.id).str>> \o rest
            ELSE rest

FetchOk(names) == [ok |-> TRUE, value |-> names, err |-> {}]
FetchErr(e) == [ok |-> FALSE, value |-> {}, err |-> {e}]

(***************************************************************************)
(* fetch_supported_models, lines 117-129: the Result built from the body   *)
(* of a successful response.  `value` is the Option<Vec<String>>.          *)
(***************************************************************************)
\* Faulty variant of models_from_body: a missing listing is an empty list.
models_from_body_EmptyOnMissing(body) ==
    IF body.data = {} \/ The(body.data).type # "array"
    THEN FetchOk({<< >>})
    ELSE FetchOk({sort(filter_map_id(The(body.data).items))})

models_from_body(body) ==
    IF body.data = {} \/ The(body.data).type # "array"
    THEN FetchErr([kind |-> "UsageError", status |-> {}])
    ELSE FetchOk({sort(filter_map_id(The(body.data).items))})

(***************************************************************************)
(* fetch_supported_models, lines 108-130.                                  *)
(***************************************************************************)
FetchSupportedModelsOn(answer) ==
    /\ adapter.status = "ok"
    /\ fetches < MaxFetches
    /\ fetches' = fetches + 1
    /\ getCalls' = getCalls + 1
    /\ lastListing' = {answer}
    /\ LET sent == send_request(answer)
       IN IF ~sent.ok THEN fetchResult' = {FetchErr(The(sent.err))}
          ELSE LET resp == handle_response_openai_compat(The(sent.value))
               IN IF ~resp.ok THEN fetchResult' = {FetchErr(The(resp.err))}
                  ELSE fetchResult' = {models_from_body(The(resp.value))}
    /\ UNCHANGED <<configVars, adapter, postCalls, completeVars>>

FetchSupportedModels == \E answer \in ListingAnswers : FetchSupportedModelsOn(answer)

Next ==
    \/ RemoveApiKey
    \/ FromEnv
    \/ Complete
    \/ Encode
    \/ SendAttempt
    \/ Decode
    \/ Return

Spec == Init /\ [][Next]_vars

NextModels ==
    \/ RemoveApiKey
    \/ FromEnv
    \/ FetchSupportedModels

SpecModels == Init /\ [][NextModels]_vars

(***************************************************************************)
(* Helpers of the properties.                                              *)
(***************************************************************************)
Sorted(v) == \A i, j \in 1..Len(v) : i < j => StrLeq(v[i], v[j])
NoDuplicates(v) == \A i, j \in 1..Len(v) : i # j => v[i] # v[j]

\* The last GET v1/models was answered 200 with this body.
ListingBody == The(The(lastListing).body)
ListingAnswered ==
    /\ lastListing # {}
    /\ The(lastListing).transport = "ok"
    /\ The(lastListing).status = {200}

\* The payload the call in flight must send: its arguments, encoded.
Encoded == create_request(The(adapter.model), The(input).system, The(input).messages)

LastAttempt == log[Len(log)].outcome
ServerError500 == {[kind |-> "TransientNetworkError", status |-> {500}]}

(***************************************************************************)
(* C1: a successful fetch_supported_models result is lexicographically     *)
(* sorted and contains no duplicate model id, whatever the order and the   *)
(* repetitions of the backend listing.                                     *)
(***************************************************************************)
C1_SortedNoDuplicates ==
    (fetchResult # {} /\ The(fetchResult).ok) =>
        \A names \in The(fetchResult).value : Sorted(names) /\ NoDuplicates(names)

(***************************************************************************)
(* C2: the model identifier of the returned usage is the one the response  *)
(* reports, and the configured model id when the response reports none.    *)
(***************************************************************************)
C2_ModelReportedOrConfigured ==
    phase = "Done" =>
        The(result).model = IF The(response).model # {} THEN The(response).model
                            ELSE adapter.model

(***************************************************************************)
(* C3: when the post succeeded and the response has no usage object, the   *)
(* call returns success with the all-absent Usage whenever the message     *)
(* decodes, and a failure of such a call is never due to the usage: it is  *)
(* the decode error of a response without message content.                 *)
(***************************************************************************)
C3_MissingUsageZeroed ==
    (phase \in {"Done", "Failed"} /\ response # {} /\ The(response).usage = {}) =>
        /\ The(response).content # {} =>
               /\ phase = "Done"
               /\ The(result).ok
               /\ The(result).usage = {Usage_default}
        /\ The(response).content = {} =>
               The(result).err = response_to_message(The(response)).err

C3_Witness ==
    /\ phase = "Done"
    /\ The(response).usage = {}
    /\ The(result).ok
    /\ The(result).usage = {Usage_default}

(***************************************************************************)
(* C4: the retry-wrapped post is invoked once per attempt until the first  *)
(* success, the first non-retriable error or the attempt ceiling: every    *)
(* attempt but the last failed with a retriable error; the call is still   *)
(* sending only after a retriable error below the ceiling; it decodes only *)
(* after a success; a 401 on the first attempt ends the call after that    *)
(* one invocation with AuthenticationError; and the error of a call that   *)
(* failed while sending is the error of its last attempt.                  *)
(***************************************************************************)
C4_RetryUntilDecided ==
    LET n == Len(log)
    IN /\ n <= MaxAttempts
       /\ \A i \in 1..(n - 1) :
              ~log[i].outcome.ok /\ should_retry(The(log[i].outcome.err))
       /\ (phase = "Sending" /\ n > 0) =>
              /\ ~LastAttempt.ok
              /\ should_retry(The(LastAttempt.err))
              /\ n < MaxAttempts
       /\ phase \in {"Decoding", "Done"} => (n > 0 /\ LastAttempt.ok)
       /\ (n > 0 /\ ~LastAttempt.ok /\ phase # "Sending") =>
              /\ phase = "Failed"
              /\ ~should_retry(The(LastAttempt.err)) \/ n = MaxAttempts
              /\ result = {Err(The(LastAttempt.err))}
       /\ (n > 0 /\ log[1].outcome.err # {}
             /\ The(log[1].outcome.err).status = {401}) =>
              /\ n = 1
              /\ phase = "Failed"
              /\ The(The(result).err).kind = "AuthenticationError"

C4_Witness ==
    /\ phase = "Done"
    /\ Len(log) = 3
    /\ log[1].outcome.err = ServerError500
    /\ log[2].outcome.err = ServerError500
    /\ log[3].outcome.ok
    /\ The(result).ok

(***************************************************************************)
(* C5: from_env with SWISS_AI_API_KEY absent from the configuration fails  *)
(* with a ConfigurationError, builds no client, and no POST or GET has     *)
(* been made when it fails; no request is ever made without an adapter.    *)
(***************************************************************************)
C5_MissingKeyFailsBeforeNetwork ==
    /\ [](adapter.status # "ok" => (postCalls = 0 /\ getCalls = 0))
    /\ [][(adapter.status = "none" /\ adapter'.status # "none" /\ apiKey = {}) =>
              /\ adapter'.status = "failed"
              /\ adapter'.err = {"ConfigurationError"}
              /\ adapter'.client = {}
              /\ postCalls' = 0
              /\ getCalls' = 0]_vars

C5_Witness ==
    /\ apiKey = {}
    /\ adapter.status = "failed"
    /\ adapter.err = {"ConfigurationError"}
    /\ postCalls = 0
    /\ getCalls = 0

(***************************************************************************)
(* C6: when GET v1/models is answered successfully and `data` is absent or *)
(* is no array, fetch_supported_models returns an error, never an empty    *)
(* list and never None.                                                    *)
(***************************************************************************)
C6_MissingDataIsError ==
    (ListingAnswered /\ (ListingBody.data = {} \/ The(ListingBody.data).type # "array")) =>
        /\ ~The(fetchResult).ok
        /\ The(fetchResult).value = {}
        /\ The(fetchResult).err # {}

C6_Witness ==
    /\ ListingAnswered
    /\ ListingBody.data = {}
    /\ ~The(fetchResult).ok
    /\ The(The(fetchResult).err).kind = "UsageError"

(***************************************************************************)
(* C7: when the backend answers successfully with a listing that yields no *)
(* model id, fetch_supported_models returns Ok(None).                      *)
(***************************************************************************)
C7_NoModelsIsNone ==
    (/\ ListingAnswered
     /\ ListingBody.data # {}
     /\ The(ListingBody.data).type = "array"
     /\ filter_map_id(The(ListingBody.data).items) = << >>) =>
        (The(fetchResult).ok /\ The(fetchResult).value = {})

(***************************************************************************)
(* C8: when the post succeeded and the response lacks the message content, *)
(* complete fails with ResponseShapeError: it never reaches Done, returns  *)
(* no message and no usage, the successful attempt is the last invocation  *)
(* of post, and no post is made once the call has failed.                  *)
(***************************************************************************)
C8_MissingContentFails ==
    /\ []((response # {} /\ The(response).content = {}) =>
              /\ phase \in {"Decoding", "Failed"}
              /\ LastAttempt.ok /\ LastAttempt.value = response
              /\ phase = "Failed" =>
                     /\ ~The(result).ok
                     /\ The(The(result).err).kind = "ResponseShapeError"
                     /\ The(result).message = {} /\ The(result).usage = {})
    /\ [][phase = "Failed" => (postCalls' = postCalls /\ Len(log') <= Len(log))]_vars

C8_Witness ==
    /\ phase = "Failed"
    /\ response # {}
    /\ The(response).content = {}
    /\ The(The(result).err).kind = "ResponseShapeError"

(***************************************************************************)
(* C9: a complete call moves only along Idle -> Encoding -> Sending        *)
(* (attempts 1..N) -> Decoding -> Done: a post is made only while sending, *)
(* with the payload encoded; decoding starts only from sending, on a       *)
(* successful attempt; Failed is entered only from Encoding, from Sending  *)
(* on a non-retriable error or at the attempt ceiling, or from Decoding;   *)
(* Done and Failed only return to the caller, keeping the result; the next *)
(* call starts with no local of the previous one, and no step of a call    *)
(* changes the adapter.                                                    *)
(***************************************************************************)
PhaseEdges ==
    { <<"Idle", "Encoding">>, <<"Encoding", "Sending">>, <<"Encoding", "Failed">>,
      <<"Sending", "Decoding">>, <<"Sending", "Failed">>, <<"Decoding", "Done">>,
      <<"Decoding", "Failed">>, <<"Done", "Idle">>, <<"Failed", "Idle">> }

C9_Lifecycle ==
    [][/\ phase' # phase => <<phase, phase'>> \in PhaseEdges
       /\ (postCalls' # postCalls \/ Len(log') > Len(log)) =>
              /\ phase = "Sending"
              /\ payload # {}
              /\ postCalls' = postCalls + 1
              /\ Len(log') = Len(log) + 1
       /\ (phase # "Decoding" /\ phase' = "Decoding") =>
              /\ phase = "Sending"
              /\ log'[Len(log')].outcome.ok
              /\ response' = log'[Len(log')].outcome.value
       /\ (phase = "Sending" /\ phase' = "Failed") =>
              /\ ~log'[Len(log')].outcome.ok
              /\ \/ ~should_retry(The(log'[Len(log')].outcome.err))
                 \/ Len(log') = MaxAttempts
       /\ phase \in {"Done", "Failed"} =>
              /\ phase' = "Idle"
              /\ result' = result
       /\ (phase = "Idle" /\ phase' = "Encoding") =>
              /\ payload' = {} /\ log' = << >> /\ response' = {}
              /\ result' = {} /\ trace' = {}
       /\ phase' = "Idle" =>
              (input' = {} /\ payload' = {} /\ log' = << >> /\ response' = {})
       /\ phase # "Idle" => adapter' = adapter
      ]_vars

C9_Witness ==
    /\ calls = 2
    /\ phase = "Done"
    /\ Len(log) = 2
    /\ The(result).ok

(***************************************************************************)
(* C10: within one call every attempt is sent the payload encoded from the *)
(* call's arguments: the local payload, once set, stays that value through *)
(* all attempts, and the payload handed to the debug trace after the last  *)
(* attempt is that value too.                                              *)
(***************************************************************************)
C10_PayloadReused ==
    input # {} =>
        /\ \A i \in 1..Len(log) : Encoded.ok /\ log[i].sent = Encoded.value
        /\ payload # {} => (Encoded.ok /\ payload = Encoded.value)
        /\ phase = "Done" => (trace # {} /\ {The(trace).payload} = Encoded.value)

C10_Witness ==
    /\ phase = "Done"
    /\ Len(log) = 3
    /\ \A i \in 1..3 : log[i].sent = Encoded.value
    /\ {The(trace).payload} = Encoded.value

====
